---- MODULE Spec2Model ----
(***************************************************************************)
(* Feature (ao/src/eval/feature.cpp): the epsilon set that disambiguates   *)
(* min/max branches, and the join of a branching DCTree cell.              *)
(*                                                                         *)
(* Arithmetic.  The source works on Eigen::Vector3d.  Here a vector is a    *)
(* triple of integers and every quantity the code compares is computed     *)
(* exactly:                                                                *)
(*   - a unit vector v/|v| is held as the primitive integer vector of its  *)
(*     direction (components divided by their gcd), so that normalizing    *)
(*     (2,0,0) and (1,0,0) yields the same stored value while (1,1,0)      *)
(*     yields (1,1,0)/sqrt 2, held as <<1,1,0>>;                           *)
(*   - dot and cross products of unit vectors are the integer products of  *)
(*     the directions divided by the (positive) lengths, so their sign is  *)
(*     the sign of the integer product and "== -1" / "|.| == 1" are        *)
(*     decided on squares;                                                 *)
(*   - asin is a monotone step function onto [0, pi/2] in units of pi/12.  *)
(* Floating-point rounding is not modelled.  The vectors of Inputs and of  *)
(* DeepInputs hold no pair of opposite diagonal directions and no three    *)
(* coplanar vectors in a plane that is not a coordinate plane, the cases   *)
(* in which rounded and exact comparisons differ.                          *)
(***************************************************************************)
EXTENDS Integers, Sequences, FiniteSets, TLC

(***************************************************************************)
(* Bounds of the model                                                     *)
(***************************************************************************)
\* Longest choices list explored by Spec
MaxChoices == 3
\* Longest choices list explored by SpecDeep
MaxDeep == 6

\* Vectors handed to push by Spec
Inputs ==
    { <<0, 0, 0>>, <<1, 0, 0>>, <<2, 0, 0>>, <<-1, 0, 0>>,
      <<0, 1, 0>>, <<-1, -1, 0>>, <<0, 0, 1>> }

\* Vectors handed to direct calls of isCompatible and of checkPlanar
QueryInputs == { <<0, 0, 0>>, <<2, 0, 0>>, <<-1, -1, 0>> }
PlanarInputs == { <<-1, -1, 0>>, <<0, 0, 1>> }

\* Vectors handed to push by SpecDeep
DeepInputs ==
    { <<1, 0, 0>>, <<0, 1, 0>>, <<0, 0, 1>>, <<1, 1, 0>>,
      <<0, 1, 1>>, <<1, 0, 1>>, <<-1, 2, 0>> }

\* Choice{id, choice} records handed to push
ChoiceInputs == { [id |-> 1, choice |-> 0], [id |-> 2, choice |-> 1] }
DeepChoice == [id |-> 1, choice |-> 0]

\* Longest choices list explored by SpecRaw
MaxRaw == 3

\* Nonzero vectors handed to push and push_raw by SpecRaw
RawInputs == { <<1, 0, 0>>, <<2, 0, 0>>, <<0, 1, 0>>, <<-1, -1, 0>> }

\* Candidate normals of the brute-force half-space search
NormalRange == -3 .. 3

(***************************************************************************)
(* Vector arithmetic (Eigen)                                               *)
(***************************************************************************)
Abs(x) == IF x < 0 THEN -x ELSE x

RECURSIVE Gcd(_, _)
Gcd(a, b) == IF b = 0 THEN a ELSE Gcd(b, a % b)

dot(a, b) == a[1] * b[1] + a[2] * b[2] + a[3] * b[3]

cross(a, b) ==
    << a[2] * b[3] - a[3] * b[2],
       a[3] * b[1] - a[1] * b[3],
       a[1] * b[2] - a[2] * b[1] >>

\* squared length
squaredNorm(a) == dot(a, a)

\* v.normalized(): the direction of v; the zero vector is returned as it is
normalized(v) ==
    IF squaredNorm(v) = 0 THEN v
    ELSE LET g == Gcd(Gcd(Abs(v[1]), Abs(v[2])), Abs(v[3]))
         IN  << v[1] \div g, v[2] \div g, v[3] \div g >>

\* a.dot(b) == -1 for unit vectors a/|a| and b/|b|
dotIsMinusOne(a, b) ==
    /\ dot(a, b) < 0
    /\ dot(a, b) * dot(a, b) = squaredNorm(a) * squaredNorm(b)

\* std::abs(a_.dot(b_)) == 1 for a_ = a.normalized(), b_ = b.normalized()
absDotIsOne(a, b) ==
    /\ squaredNorm(a) # 0
    /\ squaredNorm(b) # 0
    /\ dot(a, b) * dot(a, b) = squaredNorm(a) * squaredNorm(b)

(***************************************************************************)
(* asin, in units of pi/12, of the square root of num/den in [0, 1]        *)
(***************************************************************************)
M_PI == 12

\* 1000 * sin^2(k * pi/12), k = 0 .. 6
SinSquared == << 0, 67, 250, 500, 750, 933, 1000 >>

asin(num, den) ==
    LET ks == { k \in 0 .. 6 : SinSquared[k + 1] * den <= 1000 * num }
    IN  CHOOSE k \in ks : \A j \in ks : j <= k

min(a, b) == IF b < a THEN b ELSE a
max(a, b) == IF a < b THEN b ELSE a

\* asin((a/|a|).cross(v/|v|).norm())
crossAngle(a, v) ==
    asin(squaredNorm(cross(a, v)), squaredNorm(a) * squaredNorm(v))

(***************************************************************************)
(* Feature::checkPlanar                                                    *)
(***************************************************************************)
\* the loop over the second and later epsilons; cross0 is the cross product
\* of the first epsilon with v, i the position of the iterator
RECURSIVE checkPlanarLoop(_, _, _, _, _, _)
checkPlanarLoop(eps, v, cross0, i, angle_min, angle_max) ==
    IF i > Len(eps)
    THEN IF angle_max - angle_min > M_PI THEN "PLANAR_FAIL" ELSE "PLANAR_SUCCESS"
    ELSE LET c == cross(eps[i], v)
             angle == crossAngle(eps[i], v)
         IN  IF ~absDotIsOne(c, cross0)
             THEN "NOT_PLANAR"
             ELSE checkPlanarLoop(eps, v, cross0, i + 1,
                                  min(angle, angle_min), max(angle, angle_max))

checkPlanar(e, eps) ==
    IF Len(eps) < 2
    THEN "NOT_PLANAR"
    ELSE LET v == normalized(e)
             angle == crossAngle(eps[1], v)
         IN  checkPlanarLoop(eps, v, cross(eps[1], v), 2,
                             min(0, angle), max(0, angle))

(***************************************************************************)
(* Feature::isCompatible                                                   *)
(***************************************************************************)
normIsZero_unchecked(e) == FALSE

\* norm == 0
normIsZero(e) == squaredNorm(e) = 0

alreadyInList_skipped(e, eps) == FALSE

\* "Return early if the epsilon is already in the list"
alreadyInList(e, eps) == \E i \in 1 .. Len(eps) : e = eps[i]

singleCompatible_always(e, eps) == TRUE

\* the single-epsilon case
singleCompatible(e, eps) == ~dotIsMinusOne(e, eps[1])

\* the innermost loop: every c other than a and b lies strictly on one side
\* of the plane with normal norm
RECURSIVE signLoop(_, _, _, _, _, _)
signLoop(es, a, b, norm, c, sign) ==
    IF c > Len(es) THEN TRUE
    ELSE IF a = c \/ b = c THEN signLoop(es, a, b, norm, c + 1, sign)
    ELSE LET d == dot(norm, es[c])
         IN  IF d < 0 THEN sign <= 0 /\ signLoop(es, a, b, norm, c + 1, -1)
             ELSE IF d > 0 THEN sign >= 0 /\ signLoop(es, a, b, norm, c + 1, 1)
             ELSE FALSE

\* the O(n^3) loop over es = epsilons + e
generalCompatible(e, eps) ==
    LET es == Append(eps, e)
    IN  \E a, b \in 1 .. Len(es) :
            /\ a # b
            /\ ~dotIsMinusOne(es[a], es[b])
            /\ signLoop(es, a, b, cross(es[a], es[b]), 1, 0)

\* one run of isCompatible: the branch that decides, and the value returned
isCompatibleRun(e, eps) ==
    IF normIsZero(e) THEN [via |-> "zero", result |-> FALSE]
    ELSE LET u == normalized(e)
         IN  IF Len(eps) = 0 THEN [via |-> "empty", result |-> TRUE]
             ELSE IF Len(eps) = 1
             THEN [via |-> "single", result |-> singleCompatible(u, eps)]
             ELSE IF alreadyInList(u, eps)
             THEN [via |-> "present", result |-> TRUE]
             ELSE LET planar == checkPlanar(u, eps)
                  IN  CASE planar = "PLANAR_FAIL" ->
                             [via |-> "planar", result |-> FALSE]
                        [] planar = "PLANAR_SUCCESS" ->
                             [via |-> "planar", result |-> TRUE]
                        [] planar = "NOT_PLANAR" ->
                             [via |-> "general",
                              result |-> generalCompatible(u, eps)]

isCompatible(e, eps) == isCompatibleRun(e, eps).result

isCompatibleBranch(e, eps) == isCompatibleRun(e, eps).via

(***************************************************************************)
(* Feature::push                                                           *)
(***************************************************************************)
pushChoices_unguarded(ok, choice, cs) == <<choice>> \o cs

\* choices.push_front(choice), when compatible
pushChoices(ok, choice, cs) == IF ok THEN <<choice>> \o cs ELSE cs

\* A value of the map _epsilons: a vector with its length, held as its
\* direction and its squared length (epsilons holds unit vectors only, as
\* directions).  asPassed(e) is e itself, afterNormalize(e) is e after
\* e.normalize().
asPassed(e) == [dir |-> normalized(e), len2 |-> squaredNorm(e)]

afterNormalize(e) ==
    [dir |-> normalized(e), len2 |-> IF squaredNorm(e) = 0 THEN 0 ELSE 1]

\* m[id] = x
mapAssign(m, id, x) ==
    [i \in DOMAIN m \cup {id} |-> IF i = id THEN x ELSE m[i]]

\* _epsilons[choice.id] = e, when compatible (e as it was passed in: the
\* assignment comes before e.normalize())
pushEpsilonMap(ok, e, choice, m) ==
    IF ok THEN mapAssign(m, choice.id, asPassed(e)) ELSE m

storeEpsilon_always(e, eps) == Append(eps, e)

\* "Store the epsilon if it isn't already present"
storeEpsilon(e, eps) ==
    IF \E i \in 1 .. Len(eps) : e = eps[i] THEN eps ELSE Append(eps, e)

pushEpsilons(ok, e, eps) == IF ok THEN storeEpsilon(normalized(e), eps) ELSE eps

(***************************************************************************)
(* State                                                                   *)
(***************************************************************************)
VARIABLES
    epsilons,    \* Feature::epsilons, the list of unit vectors
    choices,     \* Feature::choices, the list of Choice records
    _epsilons,   \* Feature::_epsilons, the map from choice id to epsilon
    op,          \* the member function called last
    arg,         \* its vector argument
    argChoice,   \* its Choice argument (push)
    ret,         \* its return value
    via          \* the branch of isCompatible that decided it

featureVars == << epsilons, choices, _epsilons, op, arg, argChoice, ret, via >>

(***************************************************************************)
(* A branching DCTree<N> cell and the tasks that build its 2^N children    *)
(***************************************************************************)
\* the dimension of the tree: DCTree<2> is the quadtree, DCTree<3> the octree
N == 2

\* child indices 0 .. 2^N - 1
Children == 0 .. (2^N - 1)

VARIABLES
    task,        \* per child: "queued", "building", "built" or "collected"
    children,    \* the indices i with this->children[i] set
    pending,     \* number of children yet to come before the join
    merged,      \* how many times the merge / collapse step ran
    mergedWith,  \* the children that were present when it ran
    collected    \* per child: what its call of collectChildren returned

treeVars == << task, children, pending, merged, mergedWith, collected >>

vars == << epsilons, choices, _epsilons, op, arg, argChoice, ret, via,
           task, children, pending, merged, mergedWith, collected >>

NoChoice == [id |-> 0, choice |-> 0]

Init ==
    /\ epsilons = << >>
    /\ choices = << >>
    /\ _epsilons = [i \in {} |-> << >>]
    /\ op = "init"
    /\ arg = << >>
    /\ argChoice = NoChoice
    /\ ret = FALSE
    /\ via = "none"
    /\ task = [i \in Children |-> "queued"]
    /\ children = {}
    /\ pending = 2^N - 1
    /\ merged = 0
    /\ mergedWith = {}
    /\ collected = [i \in Children |-> "none"]

\* bool Feature::push(Eigen::Vector3d e, Choice choice)
Push(e, choice) ==
    LET run == isCompatibleRun(e, epsilons)
        ok == run.result
    IN  /\ choices' = pushChoices(ok, choice, choices)
        /\ _epsilons' = pushEpsilonMap(ok, e, choice, _epsilons)
        /\ epsilons' = pushEpsilons(ok, e, epsilons)
        /\ op' = "push"
        /\ arg' = e
        /\ argChoice' = choice
        /\ ret' = ok
        /\ via' = run.via
        /\ UNCHANGED treeVars

\* bool Feature::isCompatible(Eigen::Vector3d e) const
IsCompatible(e) ==
    /\ op' = "isCompatible"
    /\ arg' = e
    /\ argChoice' = NoChoice
    /\ ret' = isCompatibleRun(e, epsilons).result
    /\ via' = isCompatibleRun(e, epsilons).via
    /\ UNCHANGED << epsilons, choices, _epsilons >>
    /\ UNCHANGED treeVars

\* PlanarResult Feature::checkPlanar(Eigen::Vector3d v) const
CheckPlanar(v) ==
    /\ op' = "checkPlanar"
    /\ arg' = v
    /\ argChoice' = NoChoice
    /\ ret' = checkPlanar(v, epsilons)
    /\ via' = "none"
    /\ UNCHANGED << epsilons, choices, _epsilons >>
    /\ UNCHANGED treeVars

PushAny ==
    \E e \in Inputs, c \in ChoiceInputs :
        Len(choices) < MaxChoices /\ Push(e, c)

IsCompatibleAny == \E e \in QueryInputs : IsCompatible(e)

CheckPlanarAny == \E v \in PlanarInputs : CheckPlanar(v)

Next == PushAny \/ IsCompatibleAny \/ CheckPlanarAny

Spec == Init /\ [][Next]_vars

\* Longer runs of push over the vectors of DeepInputs
PushDeep ==
    \E e \in DeepInputs : Len(choices) < MaxDeep /\ Push(e, DeepChoice)

NextDeep == PushDeep

SpecDeep == Init /\ [][NextDeep]_vars

(***************************************************************************)
(* Feature::push_raw, and runs that mix it with push                       *)
(***************************************************************************)
\* void Feature::push_raw(Choice c, Eigen::Vector3d v)
PushRaw(c, v) ==
    /\ epsilons' = Append(epsilons, normalized(v))
    /\ choices' = Append(choices, c)
    /\ _epsilons' = mapAssign(_epsilons, c.id, afterNormalize(v))
    /\ op' = "push_raw"
    /\ arg' = v
    /\ argChoice' = c
    /\ ret' = FALSE
    /\ via' = "none"
    /\ UNCHANGED treeVars

PushRawAny ==
    \E v \in RawInputs, c \in ChoiceInputs :
        Len(choices) < MaxRaw /\ PushRaw(c, v)

PushNonzero ==
    \E e \in RawInputs, c \in ChoiceInputs :
        Len(choices) < MaxRaw /\ Push(e, c)

NextRaw == PushRawAny \/ PushNonzero

SpecRaw == Init /\ [][NextRaw]_vars

(***************************************************************************)
(* DCTree: the child tasks and DCTree::collectChildren                     *)
(***************************************************************************)
\* a worker takes the task of child i and starts build(childRegion, tape')
StartBuild(i) ==
    /\ task[i] = "queued"
    /\ task' = [task EXCEPT ![i] = "building"]
    /\ UNCHANGED << children, pending, merged, mergedWith, collected >>
    /\ UNCHANGED featureVars

\* the build of child i completes and the child is stored in its parent
FinishBuild(i) ==
    /\ task[i] = "building"
    /\ task' = [task EXCEPT ![i] = "built"]
    /\ children' = children \cup {i}
    /\ UNCHANGED << pending, merged, mergedWith, collected >>
    /\ UNCHANGED featureVars

yetToCome_never(p) == FALSE

\* "any children are yet to come"
yetToCome(p) == p # 0

\* the task of child i calls the parent's collectChildren: one atomic step
\* on pending decides whether this call is the join; the join merges
CollectChildren(i) ==
    /\ task[i] = "built"
    /\ task' = [task EXCEPT ![i] = "collected"]
    /\ pending' = pending - 1
    /\ IF yetToCome(pending)
       THEN /\ collected' = [collected EXCEPT ![i] = "false"]
            /\ UNCHANGED << merged, mergedWith >>
       ELSE /\ collected' = [collected EXCEPT ![i] = "true"]
            /\ merged' = merged + 1
            /\ mergedWith' = children
    /\ UNCHANGED children
    /\ UNCHANGED featureVars

NextTree ==
    \/ \E i \in Children : StartBuild(i)
    \/ \E i \in Children : FinishBuild(i)
    \/ \E i \in Children : CollectChildren(i)

SpecTree == Init /\ [][NextTree]_vars

(***************************************************************************)
(* Vocabulary of the properties                                            *)
(***************************************************************************)
Zero == <<0, 0, 0>>

\* the set of stored epsilons
Stored == { epsilons[i] : i \in 1 .. Len(epsilons) }

\* some n has n.e > 0 for every e of S (brute force over a box of normals)
HalfSpaceExists(S) ==
    \E x \in NormalRange, y \in NormalRange, z \in NormalRange :
        \A e \in S : dot(<<x, y, z>>, e) > 0

\* the vectors of S lie in one plane through the origin
Coplanar(S) == \A a \in S, b \in S, c \in S : dot(cross(a, b), c) = 0

\* a normal of the plane of a coplanar S (zero if S lies on a line)
PlaneNormal(S) ==
    IF \E a \in S, b \in S : cross(a, b) # Zero
    THEN LET ab == CHOOSE ab \in S \X S : cross(ab[1], ab[2]) # Zero
         IN  cross(ab[1], ab[2])
    ELSE Zero

\* the angles of the coplanar S span less than pi: turning counterclockwise
\* from some first vector a, every other vector comes before -a
SpreadLessThanPi(S) ==
    LET w == PlaneNormal(S)
    IN  \E a \in S : \A x \in S :
            \/ dot(cross(a, x), w) > 0
            \/ cross(a, x) = Zero /\ dot(a, x) > 0

\* u and v are unit vectors of exactly opposite directions
ExactOpposite(u, v) == u = << -v[1], -v[2], -v[3] >>

NoDuplicates(eps) ==
    \A i \in 1 .. Len(eps), j \in 1 .. Len(eps) : i # j => eps[i] # eps[j]

(***************************************************************************)
(* C1: isCompatible(e) is true exactly when one open half-space contains e *)
(* and every stored epsilon (stored sets of at most 5).                    *)
(***************************************************************************)
C1_AgreesWithHalfSpace ==
    \A e \in Inputs :
        Len(epsilons) <= 5 =>
            (isCompatible(e, epsilons) <=> HalfSpaceExists(Stored \cup {e}))

(***************************************************************************)
(* C2: after any sequence of push calls the stored epsilons lie in one     *)
(* open half-space.                                                        *)
(***************************************************************************)
C2_StoredCompatible == HalfSpaceExists(Stored)

(***************************************************************************)
(* C3: a vector that isCompatible rejects stays rejected after every       *)
(* further push.                                                           *)
(***************************************************************************)
C3_RejectionPersists ==
    [][\A e \in DeepInputs :
          ~isCompatible(e, epsilons) => ~isCompatible(e, epsilons')]_vars

(***************************************************************************)
(* C4: with two or more stored epsilons and a candidate in their common    *)
(* plane that is not stored yet, isCompatible is true iff the angular      *)
(* spread of the stored epsilons and the candidate is less than pi.        *)
(***************************************************************************)
C4_PlanarSpread ==
    \A e \in Inputs :
        LET u == normalized(e)
        IN  ( /\ Len(epsilons) >= 2
              /\ ~normIsZero(e)
              /\ u \notin Stored
              /\ Coplanar(Stored \cup {u}) )
            => (isCompatible(e, epsilons) <=> SpreadLessThanPi(Stored \cup {u}))

(***************************************************************************)
(* C5: push returns isCompatible(e) of the state before; on success the    *)
(* choice becomes the head of choices with the old list behind it, and the *)
(* normalized e is appended to epsilons unless an equal vector is stored,  *)
(* so epsilons grows by at most one and holds no duplicate.                *)
(***************************************************************************)
C5_PushContract ==
    [][op' = "push" =>
        /\ ret' = isCompatible(arg', epsilons)
        /\ ret' =>
            /\ Len(choices') = Len(choices) + 1
            /\ Head(choices') = argChoice'
            /\ Tail(choices') = choices
            /\ epsilons' = IF normalized(arg') \in Stored
                           THEN epsilons
                           ELSE Append(epsilons, normalized(arg'))
            /\ Len(epsilons') <= Len(epsilons) + 1
        /\ NoDuplicates(epsilons')]_vars

\* an accepted push of (2,0,0) onto a set that holds (1,0,0) already
C5_Witness ==
    /\ op = "push" /\ ret = TRUE /\ arg = <<2, 0, 0>>
    /\ Len(choices) = 3 /\ Len(epsilons) = 2
    /\ <<1, 0, 0>> \in Stored
    /\ choices[1] # choices[2]

(***************************************************************************)
(* C6: the zero vector is rejected in every state, by isCompatible and by  *)
(* push, ahead of the size and already-present shortcuts.                  *)
(***************************************************************************)
C6_ZeroRejected ==
    /\ ~isCompatible(Zero, epsilons)
    /\ isCompatibleBranch(Zero, epsilons) = "zero"
    /\ (op \in {"push", "isCompatible"} /\ arg = Zero)
           => (ret = FALSE /\ via = "zero")

\* push of the zero vector onto a set of two epsilons
C6_Witness ==
    /\ op = "push" /\ arg = Zero /\ ret = FALSE
    /\ Len(epsilons) = 2

(***************************************************************************)
(* C8: with at least one stored epsilon, isCompatible accepts every vector *)
(* whose normalization is stored, without the planar or general test;      *)
(* pushing such a vector succeeds, leaves epsilons as it is and adds one   *)
(* entry at the head of choices.                                           *)
(***************************************************************************)
C8_StoredAccepted ==
    \A e \in Inputs :
        (Len(epsilons) >= 1 /\ ~normIsZero(e) /\ normalized(e) \in Stored)
            => /\ isCompatible(e, epsilons)
               /\ isCompatibleBranch(e, epsilons) \in {"single", "present"}

C8_RepushStep ==
    (op' = "push" /\ ~normIsZero(arg') /\ normalized(arg') \in Stored)
        => /\ ret' = TRUE
           /\ via' \in {"single", "present"}
           /\ epsilons' = epsilons
           /\ choices' = <<argChoice'>> \o choices

C8_Repush == []C8_StoredAccepted /\ [][C8_RepushStep]_vars

\* (2,0,0) pushed onto a set of two epsilons that holds (1,0,0)
C8_Witness ==
    /\ op = "push" /\ ret = TRUE /\ via = "present"
    /\ arg = <<2, 0, 0>>
    /\ Len(epsilons) = 2 /\ Len(choices) = 3

C10_RejectedPushNoEffect ==
    [][/\ (op' = "push" /\ ret' = FALSE)
            => UNCHANGED << epsilons, choices, _epsilons >>
       /\ (op' \in {"isCompatible", "checkPlanar"})
            => UNCHANGED << epsilons, choices, _epsilons >>]_vars

\* a nonzero vector rejected by the general test against two epsilons
C10_Witness ==
    /\ op = "push" /\ ret = FALSE /\ via = "general"
    /\ Len(epsilons) = 2 /\ Len(choices) = 2
    /\ DOMAIN _epsilons = {1, 2}

(***************************************************************************)
(* C7: collectChildren returns false and merges nothing while a child is   *)
(* yet to come, returns true only when all 2^N children are present, and   *)
(* under every interleaving of the child tasks the merge / collapse step   *)
(* runs after all 2^N builds have completed, exactly once.                 *)
(***************************************************************************)
C7_JoinOnce ==
    /\ merged <= 1
    /\ (children # Children) => merged = 0
    /\ \A i \in Children : collected[i] = "true" => children = Children
    /\ merged = 1 => mergedWith = Children
    /\ merged = Cardinality({ i \in Children : collected[i] = "true" })
    /\ (\A i \in Children : task[i] = "collected") => merged = 1

\* every task has returned; the join was made by the task of child 0, and
\* the task of the last child was told that more children were to come
C7_Witness ==
    /\ \A i \in Children : task[i] = "collected"
    /\ merged = 1
    /\ collected[0] = "true"
    /\ collected[2^N - 1] = "false"

(***************************************************************************)
(* C11: after any sequence of push and push_raw calls with nonzero         *)
(* vectors, the vector recorded in _epsilons for every id that occurs in   *)
(* choices is a unit vector and an element of epsilons; push and push_raw  *)
(* record the same epsilon for the same input vector.                      *)
(***************************************************************************)
C11_RecordedUnit ==
    /\ \A k \in 1 .. Len(choices) :
          /\ choices[k].id \in DOMAIN _epsilons
          /\ _epsilons[choices[k].id].len2 = 1
          /\ _epsilons[choices[k].id].dir \in Stored
    /\ (op \in {"push", "push_raw"} /\ (op = "push" => ret = TRUE))
           => _epsilons[argChoice.id] = afterNormalize(arg)

====
